---- MODULE Spec2Model ----
(***************************************************************************)
(* Model of the 8-bit computer simulation of main.py: RAM, LogicGates and  *)
(* CPU (execute / run).  An instruction line is a Python str, modelled as  *)
(* a sequence of one-character strings, so that the string operations of   *)
(* CPU.execute (split(";"), strip(), split(), split("THEN"), reg[1],       *)
(* address[1:-1], int(s, base)) are computed as Python computes them.      *)
(***************************************************************************)
EXTENDS Integers, Sequences, FiniteSets, TLC

\* Size N of the RAM(N) under test (main.py builds RAM(256)).
RamSize == 2

\* Longest program is this many lines (programs are drawn from ProgLines).
MaxProgLen == 2

\* self.registers = [0] * 8
NumRegisters == 8

(***************************************************************************)
(* Python str operations on character sequences                            *)
(***************************************************************************)
Whitespace == {" ", "\t", "\n"}

DecDigits == <<"0", "1", "2", "3", "4", "5", "6", "7", "8", "9">>
HexDigits == DecDigits \o <<"a", "b", "c", "d", "e", "f">>
BinDigits == <<"0", "1">>

Min(S) == CHOOSE x \in S : \A y \in S : x <= y

\* s[i:] for a 1-based i
Tail_(s, i) == SubSeq(s, i, Len(s))

\* s.strip(), keep being the positions of the characters that are not blank
StripTo(s, keep) ==
  IF keep = {} THEN << >>
  ELSE SubSeq(s, Min(keep), CHOOSE j \in keep : \A k \in keep : k <= j)

Strip(s) == StripTo(s, {i \in 1..Len(s) : s[i] \notin Whitespace})

\* sub in s
Contains(s, sub) ==
  \E i \in 1..(Len(s) - Len(sub) + 1) : SubSeq(s, i, i + Len(sub) - 1) = sub

\* s.split(sep): the list of the pieces between the occurrences of sep
RECURSIVE SplitOn(_, _)
SplitAtHit(s, sep, hits) ==
  IF hits = {} THEN <<s>>
  ELSE <<SubSeq(s, 1, Min(hits) - 1)>> \o SplitOn(Tail_(s, Min(hits) + Len(sep)), sep)

SplitOn(s, sep) ==
  SplitAtHit(s, sep, {i \in 1..(Len(s) - Len(sep) + 1) :
                         SubSeq(s, i, i + Len(sep) - 1) = sep})

\* s.split(): the whitespace-separated words, none of them empty
RECURSIVE SplitWS(_)
SplitAtBlank(t, ws) ==
  IF t = << >> THEN << >>
  ELSE IF ws = {} THEN <<t>>
  ELSE <<SubSeq(t, 1, Min(ws) - 1)>> \o SplitWS(Tail_(t, Min(ws)))

SplitStripped(t) == SplitAtBlank(t, {i \in 1..Len(t) : t[i] \in Whitespace})

SplitWS(s) == SplitStripped(Strip(s))

\* s.startswith(c) for a one-character c
StartsWith(s, c) == Len(s) >= 1 /\ s[1] = c

\* s[1:-1]
Inner(s) == SubSeq(s, 2, Len(s) - 1)

\* the value of digit character c in the given base, -1 when it is none
LowerCase(c) ==
  CASE c = "A" -> "a" [] c = "B" -> "b" [] c = "C" -> "c"
    [] c = "D" -> "d" [] c = "E" -> "e" [] c = "F" -> "f"
    [] OTHER -> c

DigitAt(at) == IF at = {} THEN -1 ELSE Min(at) - 1

DigitVal(c, base) == DigitAt({i \in 1..base : HexDigits[i] = LowerCase(c)})

RECURSIVE DigitsVal(_, _, _)
DigitsVal(s, base, acc) ==
  IF s = << >> THEN acc
  ELSE DigitsVal(Tail(s), base, acc * base + DigitVal(Head(s), base))

\* int(s, base): an optional sign and at least one digit of the base
\* (surrounding whitespace is accepted, anything else is a ValueError);
\* [err, val] with err = "none" or "IntLiteral"
ParseDigits(digs, base) ==
  IF digs # << >> /\ \A i \in 1..Len(digs) : DigitVal(digs[i], base) >= 0
  THEN [err |-> "none", val |-> DigitsVal(digs, base, 0)]
  ELSE [err |-> "IntLiteral", val |-> 0]

Negated(n) == [err |-> n.err, val |-> 0 - n.val]

ParseSigned(s, base) ==
  IF s # << >> /\ s[1] = "-" THEN Negated(ParseDigits(Tail(s), base))
  ELSE IF s # << >> /\ s[1] = "+" THEN ParseDigits(Tail(s), base)
  ELSE ParseDigits(s, base)

ParseInt(s, base) == ParseSigned(Strip(s), base)

\* f"{x:08b}": binary digits, zero-padded to width 8, the sign included
RECURSIVE BinDigitsOf(_)
BinDigitsOf(n) ==
  IF n < 2 THEN <<BinDigits[n + 1]>>
  ELSE BinDigitsOf(n \div 2) \o <<BinDigits[(n % 2) + 1]>>

RECURSIVE ZeroPad(_, _)
ZeroPad(s, w) == IF Len(s) >= w THEN s ELSE ZeroPad(<<"0">> \o s, w)

\* f"{x:b}": the binary digits without the padding to width 8
Bin8Unpadded(x) ==
  IF x < 0 THEN <<"-">> \o BinDigitsOf(0 - x) ELSE BinDigitsOf(x)

Bin8(x) ==
  IF x < 0 THEN <<"-">> \o ZeroPad(BinDigitsOf(0 - x), 7)
  ELSE ZeroPad(BinDigitsOf(x), 8)

(***************************************************************************)
(* Python integer bit operations                                           *)
(***************************************************************************)
RECURSIVE BitAnd(_, _)
BitAnd(a, b) ==
  IF a = 0 \/ b = 0 THEN 0
  ELSE 2 * BitAnd(a \div 2, b \div 2) + (IF a % 2 = 1 /\ b % 2 = 1 THEN 1 ELSE 0)

RECURSIVE BitOr(_, _)
BitOr(a, b) ==
  IF a = 0 THEN b
  ELSE IF b = 0 THEN a
  ELSE 2 * BitOr(a \div 2, b \div 2) + (IF a % 2 = 1 \/ b % 2 = 1 THEN 1 ELSE 0)

RECURSIVE BitXor(_, _)
BitXor(a, b) ==
  IF a = 0 THEN b
  ELSE IF b = 0 THEN a
  ELSE 2 * BitXor(a \div 2, b \div 2) + (IF a % 2 # b % 2 THEN 1 ELSE 0)

(***************************************************************************)
(* class LogicGates                                                        *)
(***************************************************************************)
GateAND(a, b) == BitAnd(a, b)

GateOR(a, b) == BitOr(a, b)

\* ~a & 0xFF: the low 8 bits of -a-1
GateNOT(a) == (0 - a - 1) % 256

\* a NAND that complements without the mask to 8 bits
GateNANDUnmasked(a, b) == 0 - GateAND(a, b) - 1

GateNAND(a, b) == GateNOT(GateAND(a, b))

GateNOR(a, b) == GateNOT(GateOR(a, b))

GateXOR(a, b) == BitXor(a, b)

(***************************************************************************)
(* class RAM: read and write return [err, ...]; err = "none" on success    *)
(***************************************************************************)
\* a read without the check of the lower bound: a Python list takes a
\* negative index from its end
RAMreadNegative(memory, address) ==
  IF address >= RamSize
  THEN [err |-> "OutOfBounds", val |-> 0]
  ELSE [err |-> "none", val |-> memory[address % RamSize]]

\* a read that is off by one cell
RAMreadShifted(memory, address) ==
  IF address < 0 \/ address >= RamSize
  THEN [err |-> "OutOfBounds", val |-> 0]
  ELSE [err |-> "none", val |-> memory[(address + 1) % RamSize]]

RAMread(memory, address) ==
  IF address < 0 \/ address >= RamSize
  THEN [err |-> "OutOfBounds", val |-> 0]
  ELSE [err |-> "none", val |-> memory[address]]

\* a write without the 8-bit check
RAMwriteUnchecked(memory, address, value) ==
  IF address < 0 \/ address >= RamSize
  THEN [err |-> "OutOfBounds", memory |-> memory]
  ELSE [err |-> "none", memory |-> [memory EXCEPT ![address] = value]]

RAMwrite(memory, address, value) ==
  IF address < 0 \/ address >= RamSize
  THEN [err |-> "OutOfBounds", memory |-> memory]
  ELSE IF ~(0 <= value /\ value < 256)
  THEN [err |-> "InvalidValue", memory |-> memory]
  ELSE [err |-> "none", memory |-> [memory EXCEPT ![address] = value]]

(***************************************************************************)
(* The words CPU.execute compares tokens with                              *)
(***************************************************************************)
kwLOAD == <<"L", "O", "A", "D">>
kwVER == <<"V", "E", "R">>
kwADD == <<"A", "D", "D">>
kwSTORE == <<"S", "T", "O", "R", "E">>
kwINIT == <<"I", "N", "I", "T">>
kwCLEAR == <<"C", "L", "E", "A", "R">>
kwOUT == <<"O", "U", "T">>
kwHALT == <<"H", "A", "L", "T">>
kwAND == <<"A", "N", "D">>
kwOR == <<"O", "R">>
kwNOT == <<"N", "O", "T">>
kwNAND == <<"N", "A", "N", "D">>
kwNOR == <<"N", "O", "R">>
kwXOR == <<"X", "O", "R">>
kwIF == <<"I", "F">>
kwTHEN == <<"T", "H", "E", "N">>
kwELSE == <<"E", "L", "S", "E">>
opEQ == <<"=", "=">>
opNE == <<"!", "=">>
opGT == <<">">>
opLT == <<"<">>
opGE == <<">", "=">>
opLE == <<"<", "=">>

(***************************************************************************)
(* class CPU.  The interpreter state st is the record                      *)
(*   registers, memory (self.ram.memory), verbose : the fields;            *)
(*   out : what the call has printed so far;                               *)
(*   log : the instructions execute() was entered with, in call order.     *)
(* An opcode branch yields [ret, err, st] with ret one of                  *)
(*   "end"   the branch fell through to the end of the if-chain,           *)
(*   "True", "False", "None"  the value of a return statement,             *)
(*   "Raise" an exception left the call; err names it.                     *)
(* The errors: "Parts", "VerValue", "NoThen", "Condition", "Unknown",      *)
(* "OutOfBounds", "InvalidValue" are the ValueErrors the code raises,      *)
(* "IntLiteral" the ValueError of int(), "Unpack" the ValueError of a      *)
(* tuple unpacking, "StrIndex" and "RegIndex" the IndexErrors of reg[1]    *)
(* and self.registers[i].                                                  *)
(***************************************************************************)
Raise(e, st) == [ret |-> "Raise", err |-> e, st |-> st]

End(st) == [ret |-> "end", err |-> "none", st |-> st]

Return(v, st) == [ret |-> v, err |-> "none", st |-> st]

\* print(...)
Emit(st, entry) == [st EXCEPT !.out = Append(@, entry)]

\* if self.verbose: print(...), the trace line of an opcode (its text is
\* not modelled, only which branch printed it)
TraceIf(st, op) ==
  IF st.verbose THEN Emit(st, [kind |-> "TRACE", op |-> op, text |-> << >>])
  ELSE st

\* int(reg[1])
RegIndexOf(reg) ==
  IF Len(reg) < 2 THEN [err |-> "StrIndex", val |-> 0]
  ELSE ParseInt(<<reg[2]>>, 10)

\* registers[i], i the outcome of int(reg[1])
ListGet(registers, i) ==
  IF i.err # "none" THEN i
  ELSE IF i.val \notin DOMAIN registers THEN [err |-> "RegIndex", val |-> 0]
  ELSE [err |-> "none", val |-> registers[i.val]]

\* self.registers[int(reg[1])]
RegRead(registers, reg) == ListGet(registers, RegIndexOf(reg))

\* registers[i] = value, i the outcome of int(reg[1])
ListSet(registers, i, value) ==
  IF i.err # "none" THEN [err |-> i.err, registers |-> registers]
  ELSE IF i.val \notin DOMAIN registers
  THEN [err |-> "RegIndex", registers |-> registers]
  ELSE [err |-> "none", registers |-> [registers EXCEPT ![i.val] = value]]

\* self.registers[int(reg[1])] = value
RegWrite(registers, reg, value) == ListSet(registers, RegIndexOf(reg), value)

\* the end of a branch that assigns a register, wr the outcome of RegWrite
SetRegisters(wr, st, op) ==
  IF wr.err # "none" THEN Raise(wr.err, st)
  ELSE End(TraceIf([st EXCEPT !.registers = wr.registers], op))

\* the end of a branch that writes a cell, wr the outcome of RAMwrite
SetMemory(wr, st, op) ==
  IF wr.err # "none" THEN Raise(wr.err, st)
  ELSE End(TraceIf([st EXCEPT !.memory = wr.memory], op))

\* LOAD: reg_index = int(reg[1]), addr = int(address[1:-1], 16),
\* rd = self.ram.read(addr)
LoadRead(reg, rd, st) ==
  IF rd.err # "none" THEN Raise(rd.err, st)
  ELSE SetRegisters(RegWrite(st.registers, reg, rd.val), st, "LOAD")

LoadAt(reg, reg_index, addr, st) ==
  IF reg_index.err # "none" THEN Raise(reg_index.err, st)
  ELSE IF addr.err # "none" THEN Raise(addr.err, st)
  ELSE LoadRead(reg, RAMread(st.memory, addr.val), st)

ExecLOAD(parts, st) ==
  IF Len(parts) # 3 THEN Raise("Parts", st)
  ELSE LoadAt(parts[2], RegIndexOf(parts[2]), ParseInt(Inner(parts[3]), 16), st)

\* a VER that assigns the flag before it tests the value
VerSetEarly(verbose_value, st) ==
  IF verbose_value.err # "none" THEN Raise(verbose_value.err, st)
  ELSE IF verbose_value.val \notin {1, 0}
  THEN Raise("VerValue", [st EXCEPT !.verbose = (verbose_value.val # 0)])
  ELSE End(TraceIf([st EXCEPT !.verbose = (verbose_value.val # 0)], "VER"))

\* VER: verbose_value = int(verbose_value)
VerSet(verbose_value, st) ==
  IF verbose_value.err # "none" THEN Raise(verbose_value.err, st)
  ELSE IF verbose_value.val \notin {1, 0} THEN Raise("VerValue", st)
  ELSE End(TraceIf([st EXCEPT !.verbose = (verbose_value.val # 0)], "VER"))

ExecVER(parts, st) ==
  IF Len(parts) # 3 THEN Raise("Parts", st)
  ELSE VerSet(ParseInt(parts[3], 10), st)

\* an addition that is not reduced to 8 bits
AddNoWrap(x, y) == x + y

\* (r1_val + r2_val) % 256
AddWrap(x, y) == (x + y) % 256

\* the right-hand side of the assignment in the branch of opcode op
Result(op, r1_val, r2_val) ==
  CASE op = "ADD" -> AddWrap(r1_val, r2_val)
    [] op = "AND" -> GateAND(r1_val, r2_val)
    [] op = "OR" -> GateOR(r1_val, r2_val)
    [] op = "NAND" -> GateNAND(r1_val, r2_val)
    [] op = "NOR" -> GateNOR(r1_val, r2_val)
    [] op = "XOR" -> GateXOR(r1_val, r2_val)

\* the shape shared by the branches of ADD, AND, OR, NAND, NOR, XOR:
\* r3 <- Result(op, r1, r2)
BinaryOn(op, r1_val, r2_val, r3, st) ==
  IF r1_val.err # "none" THEN Raise(r1_val.err, st)
  ELSE IF r2_val.err # "none" THEN Raise(r2_val.err, st)
  ELSE SetRegisters(RegWrite(st.registers, r3, Result(op, r1_val.val, r2_val.val)),
                    st, op)

ExecBinary(parts, st, op) ==
  IF Len(parts) # 4 THEN Raise("Parts", st)
  ELSE BinaryOn(op, RegRead(st.registers, parts[2]), RegRead(st.registers, parts[3]),
                parts[4], st)

ExecADD(parts, st) == ExecBinary(parts, st, "ADD")

\* STORE: reg_index = int(reg[1]), addr = int(address[1:-1], 16),
\* val = self.registers[reg_index]
StoreAt(reg_index, addr, val, st) ==
  IF reg_index.err # "none" THEN Raise(reg_index.err, st)
  ELSE IF addr.err # "none" THEN Raise(addr.err, st)
  ELSE IF val.err # "none" THEN Raise(val.err, st)
  ELSE SetMemory(RAMwrite(st.memory, addr.val, val.val), st, "STORE")

ExecSTORE(parts, st) ==
  IF Len(parts) # 3 THEN Raise("Parts", st)
  ELSE StoreAt(RegIndexOf(parts[2]), ParseInt(Inner(parts[3]), 16),
               RegRead(st.registers, parts[2]), st)

\* INIT: addr = int(address[1:-1], 16), value = int(value.strip(), 2)
InitAt(addr, value, st) ==
  IF addr.err # "none" THEN Raise(addr.err, st)
  ELSE IF value.err # "none" THEN Raise(value.err, st)
  ELSE SetMemory(RAMwrite(st.memory, addr.val, value.val), st, "INIT")

ExecINIT(parts, st) ==
  IF Len(parts) # 4 \/ parts[3] # <<"=">> THEN Raise("Parts", st)
  ELSE InitAt(ParseInt(Inner(parts[2]), 16), ParseInt(Strip(parts[4]), 2), st)

\* a CLEAR on a register that goes on to the trace, as the other branches do
ClearRegisterTraced(wr, st) ==
  IF wr.err # "none" THEN Raise(wr.err, st)
  ELSE End(TraceIf([st EXCEPT !.registers = wr.registers], "CLEAR"))

\* a CLEAR on a register that returns without the assignment
ClearRegisterKept(wr, st) ==
  IF wr.err # "none" THEN Raise(wr.err, st) ELSE Return("None", st)

\* CLEAR on a register: assigns 0 and returns, without a value
ClearRegister(wr, st) ==
  IF wr.err # "none" THEN Raise(wr.err, st)
  ELSE Return("None", [st EXCEPT !.registers = wr.registers])

\* CLEAR on an address: addr = int(address[1:-1], 16)
ClearAt(addr, st) ==
  IF addr.err # "none" THEN Raise(addr.err, st)
  ELSE SetMemory(RAMwrite(st.memory, addr.val, 0), st, "CLEAR")

ExecCLEAR(parts, st) ==
  IF Len(parts) # 2 THEN Raise("Parts", st)
  ELSE IF StartsWith(parts[2], "R")
  THEN ClearRegister(RegWrite(st.registers, parts[2], 0), st)
  ELSE ClearAt(ParseInt(Inner(parts[2]), 16), st)

\* OUT: v is the register's value or int(value, 2)
OutValue(v, what, st) ==
  IF v.err # "none" THEN Raise(v.err, st)
  ELSE End(Emit(st, [kind |-> "OUT", op |-> what, text |-> Bin8(v.val)]))

ExecOUT(parts, st) ==
  IF Len(parts) # 2 THEN Raise("Parts", st)
  ELSE IF StartsWith(parts[2], "R")
  THEN OutValue(RegRead(st.registers, parts[2]), "REG", st)
  ELSE OutValue(ParseInt(parts[2], 2), "Value", st)

ExecHALT(parts, st) == Return("False", st)

ExecAND(parts, st) == ExecBinary(parts, st, "AND")

ExecOR(parts, st) == ExecBinary(parts, st, "OR")

\* NOT: src = self.registers[int(reg[1])]
NotOf(src, target_reg, st) ==
  IF src.err # "none" THEN Raise(src.err, st)
  ELSE SetRegisters(RegWrite(st.registers, target_reg, GateNOT(src.val)), st, "NOT")

ExecNOT(parts, st) ==
  IF Len(parts) # 3 THEN Raise("Parts", st)
  ELSE NotOf(RegRead(st.registers, parts[2]), parts[3], st)

ExecNAND(parts, st) == ExecBinary(parts, st, "NAND")

ExecNOR(parts, st) == ExecBinary(parts, st, "NOR")

ExecXOR(parts, st) == ExecBinary(parts, st, "XOR")

CompareOps == {opEQ, opNE, opGT, opLT, opGE, opLE}

\* >= taken for >
CompareStrict(operator, reg1_value, value) ==
  CASE operator = opEQ -> reg1_value = value
    [] operator = opNE -> reg1_value # value
    [] operator = opGT -> reg1_value > value
    [] operator = opLT -> reg1_value < value
    [] operator = opGE -> reg1_value > value
    [] operator = opLE -> reg1_value <= value
    [] OTHER -> FALSE

\* condition_met
Compare(operator, reg1_value, value) ==
  CASE operator = opEQ -> reg1_value = value
    [] operator = opNE -> reg1_value # value
    [] operator = opGT -> reg1_value > value
    [] operator = opLT -> reg1_value < value
    [] operator = opGE -> reg1_value >= value
    [] operator = opLE -> reg1_value <= value
    [] OTHER -> FALSE

\* self.ram.read(addr), addr the outcome of int(value[1:-1], 16)
ReadAt(addr, st) ==
  IF addr.err # "none" THEN addr ELSE RAMread(st.memory, addr.val)

\* the right operand of an IF condition
Operand(value, st) ==
  IF StartsWith(value, "R") THEN RegRead(st.registers, value)
  ELSE IF StartsWith(value, "[") THEN ReadAt(ParseInt(Inner(value), 16), st)
  ELSE ParseInt(value, 2)

RECURSIVE Execute(_, _)

\* an IF that returns what the execute() of its clause returned
DropReturnKept(r) == r

\* the value execute() returned for the clause of an IF is dropped
DropReturn(r) == IF r.ret = "Raise" THEN r ELSE End(r.st)

\* self.execute(clause)
ExecClause(clause, st) == DropReturn(Execute(clause, st))

\* the if/elif/else on condition_met
IfBranch(condition_met, then_clause, else_clause, st) ==
  IF condition_met THEN ExecClause(then_clause, TraceIf(st, "IF met"))
  ELSE IF else_clause # << >> THEN ExecClause(else_clause, TraceIf(st, "IF else"))
  ELSE End(TraceIf(st, "IF skip"))

\* reg1_value = self.registers[int(reg1[1])], value the right operand
IfCompare(operator, reg1_value, value, then_clause, else_clause, st) ==
  IF reg1_value.err # "none" THEN Raise(reg1_value.err, st)
  ELSE IF value.err # "none" THEN Raise(value.err, st)
  ELSE IfBranch(Compare(operator, reg1_value.val, value.val),
                then_clause, else_clause, st)

\* condition_parts = condition.split(); else_clause = << >> for None
IfCondition(condition_parts, then_clause, else_clause, st) ==
  IF Len(condition_parts) # 4 \/ condition_parts[3] \notin CompareOps
  THEN Raise("Condition", st)
  ELSE IfCompare(condition_parts[3], RegRead(st.registers, condition_parts[2]),
                 Operand(condition_parts[4], st), then_clause, else_clause, st)

\* then_clause, else_clause = then_clause.split("ELSE")
IfSplitElse(condition, clauses, st) ==
  IF Len(clauses) # 2 THEN Raise("Unpack", st)
  ELSE IfCondition(SplitWS(condition), Strip(clauses[1]), Strip(clauses[2]), st)

\* if "ELSE" in then_clause
IfThenElse(condition, then_clause, st) ==
  IF Contains(then_clause, kwELSE)
  THEN IfSplitElse(condition, SplitOn(then_clause, kwELSE), st)
  ELSE IfCondition(SplitWS(condition), then_clause, << >>, st)

\* condition, then_clause = instruction.split("THEN")
IfSplitThen(halves, st) ==
  IF Len(halves) # 2 THEN Raise("Unpack", st)
  ELSE IfThenElse(Strip(halves[1]), Strip(halves[2]), st)

\* the IF branch works on the raw instruction, not on parts
ExecIF(instruction, st) ==
  IF ~Contains(instruction, kwTHEN) THEN Raise("NoThen", st)
  ELSE IfSplitThen(SplitOn(instruction, kwTHEN), st)

\* instruction.split(";")[0].strip().split()
Parts(instruction) == SplitWS(Strip(Head(SplitOn(instruction, <<";">>))))

\* the if/elif chain on the opcode
Dispatch(opcode, parts, instruction, st) ==
  CASE opcode = kwLOAD -> ExecLOAD(parts, st)
    [] opcode = kwVER -> ExecVER(parts, st)
    [] opcode = kwADD -> ExecADD(parts, st)
    [] opcode = kwSTORE -> ExecSTORE(parts, st)
    [] opcode = kwINIT -> ExecINIT(parts, st)
    [] opcode = kwCLEAR -> ExecCLEAR(parts, st)
    [] opcode = kwOUT -> ExecOUT(parts, st)
    [] opcode = kwHALT -> ExecHALT(parts, st)
    [] opcode = kwAND -> ExecAND(parts, st)
    [] opcode = kwOR -> ExecOR(parts, st)
    [] opcode = kwNOT -> ExecNOT(parts, st)
    [] opcode = kwNAND -> ExecNAND(parts, st)
    [] opcode = kwNOR -> ExecNOR(parts, st)
    [] opcode = kwXOR -> ExecXOR(parts, st)
    [] opcode = kwIF -> ExecIF(instruction, st)
    [] OTHER -> Raise("Unknown", st)

\* if not parts: return True
ExecParts(parts, instruction, st) ==
  IF parts = << >> THEN Return("True", st)
  ELSE Dispatch(parts[1], parts, instruction, st)

\* the value of the final `return True`
ReturnAtEnd == "True"

\* a branch that fell through the if/elif chain reaches the final return
AtEnd(r) == IF r.ret = "end" THEN Return(ReturnAtEnd, r.st) ELSE r

\* CPU.execute(instruction) entered in state st; the instruction is noted
\* in the log
Execute(instruction, st) ==
  AtEnd(ExecParts(Parts(instruction), instruction,
                  [st EXCEPT !.log = Append(@, instruction)]))

\* `not self.execute(instruction)`: Python truthiness of the returned value
Falsy(ret) == ret \in {"False", "None"}

(***************************************************************************)
(* The instruction lines the shell and the programs feed to the CPU        *)
(***************************************************************************)
RECURSIVE Join(_)
Join(words) ==
  IF words = << >> THEN << >>
  ELSE IF Len(words) = 1 THEN words[1]
  ELSE words[1] \o <<" ">> \o Join(Tail(words))

R(i) == <<"R", DecDigits[i + 1]>>

A(a) == <<"[", "0", HexDigits[a + 1], "]">>

Aff == <<"[", "f", "f", "]">>

B(v) == Bin8(v)

eq == <<"=">>

semi == <<";">>

note == <<"n", "b">>

kwNOP == <<"N", "O", "P">>

BlankLines == {<< >>, <<" ", " ">>, Join(<<semi, note>>)}

LoadLines ==
  { Join(<<kwLOAD, R(0), A(0)>>), Join(<<kwLOAD, R(1), A(1)>>),
    Join(<<kwLOAD, R(1), A(0)>>), Join(<<kwLOAD, R(0), A(1)>>),
    Join(<<kwLOAD, R(0), Aff>>), Join(<<kwLOAD, R(8), A(0)>>),
    Join(<<kwLOAD, R(0)>>), Join(<<kwLOAD, R(0), <<"[", "-", "1", "]">> >>),
    Join(<<kwLOAD, <<"R">>, A(0)>>) }

StoreLines ==
  { Join(<<kwSTORE, R(0), A(0)>>), Join(<<kwSTORE, R(1), A(1)>>),
    Join(<<kwSTORE, R(0), A(1)>>), Join(<<kwSTORE, R(1), A(0)>>),
    Join(<<kwSTORE, R(1), Aff>>), Join(<<kwSTORE, R(9), A(0)>>),
    Join(<<kwSTORE, R(0), A(0), R(1)>>) }

InitLines ==
  { Join(<<kwINIT, A(0), eq, B(128)>>), Join(<<kwINIT, A(1), eq, B(128)>>),
    Join(<<kwINIT, A(0), eq, B(256)>>), Join(<<kwINIT, Aff, eq, B(1)>>),
    Join(<<kwINIT, A(0), B(1)>>), Join(<<kwINIT, A(0), <<":">>, B(1)>>),
    Join(<<kwINIT, A(0), eq, B(1), B(1)>>) }

ClearLines ==
  { Join(<<kwCLEAR, A(0)>>), Join(<<kwCLEAR, A(1)>>),
    Join(<<kwCLEAR, R(0)>>), Join(<<kwCLEAR, R(1)>>), Join(<<kwCLEAR, R(6)>>),
    Join(<<kwCLEAR, R(8)>>), Join(<<kwCLEAR>>), Join(<<kwCLEAR, R(0), R(1)>>),
    Join(<<kwCLEAR, Aff>>) }

\* the well-formed ADD lines, <<a, b, d>> for ADD Ra Rb Rd
AddCases == {<<a, b, d>> : a \in {0, 1}, b \in {0, 1}, d \in {0, 1}} \cup {<<6, 6, 7>>}

AddLineOf(c) == Join(<<kwADD, R(c[1]), R(c[2]), R(c[3])>>)

AddLines ==
  { AddLineOf(c) : c \in AddCases }
  \cup { Join(<<kwADD, R(0), R(1)>>),
         Join(<<kwADD, R(0), R(1), R(9)>>), Join(<<kwADD, R(0), R(1), R(0), R(1)>>) }

LogicLines ==
  { Join(<<kwAND, R(0), R(1), R(0)>>), Join(<<kwOR, R(0), R(1), R(1)>>),
    Join(<<kwXOR, R(0), R(1), R(0)>>), Join(<<kwNOT, R(6), R(6)>>),
    Join(<<kwNAND, R(6), R(6), R(6)>>), Join(<<kwNOR, R(6), R(6), R(6)>>),
    Join(<<kwAND, R(0), R(1)>>), Join(<<kwOR, R(0), R(1)>>),
    Join(<<kwXOR, R(0), R(1)>>), Join(<<kwNOT, R(6)>>),
    Join(<<kwNAND, R(6), R(6)>>), Join(<<kwNOR, R(6), R(6), R(6), R(6)>>) }

OutLines ==
  { Join(<<kwOUT, R(0)>>), Join(<<kwOUT, R(6)>>), Join(<<kwOUT, <<"1", "0", "1">> >>),
    Join(<<kwOUT>>), Join(<<kwOUT, R(0), R(1)>>), Join(<<kwOUT, R(9)>>) }

VerLines ==
  { Join(<<kwVER, <<"x">>, <<"1">> >>), Join(<<kwVER, <<"x">>, <<"0">> >>),
    Join(<<kwVER, <<"x">>, <<"2">> >>), Join(<<kwVER, <<"1">> >>) }

\* VER with a third token that is a decimal numeral of 1 or 0 other than
\* the digit itself
VerOddLines ==
  { Join(<<kwVER, <<"x">>, <<"0", "1">> >>), Join(<<kwVER, <<"x">>, <<"+", "1">> >>),
    Join(<<kwVER, <<"x">>, <<"0", "0">> >>) }

HaltLines ==
  { kwHALT, Join(<<kwHALT, note>>), Join(<<kwHALT, semi, note>>),
    kwHALT \o semi \o note }

UnknownLines == { kwNOP, <<"h", "a", "l", "t">> }

\* IF reg1 op operand THEN then_clause [ELSE else_clause]
IfLine(reg1, op, operand, then_clause, else_clause) ==
  Join(<<kwIF, reg1, op, operand, kwTHEN, then_clause>>
       \o (IF else_clause = << >> THEN << >> ELSE <<kwELSE, else_clause>>))

\* the well-formed IF lines, one record each: the condition compares
\* register reg1 with a register ("reg"), a memory cell ("mem") or a binary
\* literal ("lit"); else = << >> when the line has no ELSE clause
IfClauses ==
  { <<Join(<<kwCLEAR, R(1)>>), Join(<<kwCLEAR, A(1)>>)>>,
    <<Join(<<kwOUT, R(0)>>), << >> >> }

IfCases ==
  { [reg1 |-> 0, op |-> o, kind |-> x[1], arg |-> x[2], then |-> c[1], else |-> c[2]] :
      o \in CompareOps, x \in {<<"reg", 1>>, <<"mem", 0>>, <<"lit", 128>>},
      c \in IfClauses }
  \cup { [reg1 |-> 0, op |-> opEQ, kind |-> "reg", arg |-> 0,
          then |-> kwHALT, else |-> << >>],
         [reg1 |-> 0, op |-> opNE, kind |-> "reg", arg |-> 0,
          then |-> Join(<<kwOUT, R(0)>>), else |-> kwHALT] }

OperandToken(kind, arg) ==
  CASE kind = "reg" -> R(arg)
    [] kind = "mem" -> A(arg)
    [] kind = "lit" -> B(arg)

IfLineOf(c) == IfLine(R(c.reg1), c.op, OperandToken(c.kind, c.arg), c.then, c.else)

IfLines == { IfLineOf(c) : c \in IfCases }

\* an IF whose THEN or ELSE clause is itself an IF
InnerIf == IfLine(R(1), opEQ, R(1), Join(<<kwOUT, R(1)>>), << >>)

NestedIfLines ==
  { IfLine(R(0), opEQ, R(0), InnerIf, << >>),
    IfLine(R(0), opNE, R(0), Join(<<kwOUT, R(0)>>), InnerIf) }

BadIfLines ==
  { Join(<<kwIF, R(0), opEQ, R(1), Join(<<kwOUT, R(0)>>)>>),
    IfLine(R(0), eq, R(1), Join(<<kwOUT, R(0)>>), << >>),
    Join(<<kwIF, R(0), opEQ, kwTHEN, kwOUT, R(0)>>),
    IfLine(R(0), opEQ, R(0), kwNOP, << >>),
    IfLine(R(9), opEQ, R(1), Join(<<kwOUT, R(0)>>), << >>),
    IfLine(R(0), opEQ, Aff, Join(<<kwOUT, R(0)>>), << >>) }

\* an IF whose THEN or ELSE clause is a VER
VerIfLines ==
  { IfLine(R(0), opEQ, R(0), Join(<<kwVER, <<"x">>, <<"1">> >>), << >>),
    IfLine(R(0), opNE, R(0), Join(<<kwOUT, R(0)>>), Join(<<kwVER, <<"x">>, <<"0">> >>)) }

\* lines with a token that is no numeral of its base
BadLiteralLines ==
  { Join(<<kwOUT, <<"1", "0", "2">> >>), Join(<<kwLOAD, <<"R", "x">>, A(0)>>),
    Join(<<kwINIT, <<"[", "0", "g", "]">>, eq, B(1)>>),
    Join(<<kwVER, <<"x">>, <<"y">> >>) }

\* L ; c: the line L followed by a comment of text c
Commented(line, c) == line \o <<" ">> \o semi \o c

\* the lines that are given a comment: one of each opcode, an unknown one,
\* and IF lines with a true condition, a false one, and an ELSE clause
CommentBase ==
  { Join(<<kwLOAD, R(0), A(0)>>), Join(<<kwSTORE, R(1), A(1)>>),
    Join(<<kwINIT, A(0), eq, B(128)>>), Join(<<kwCLEAR, R(1)>>),
    Join(<<kwADD, R(0), R(1), R(0)>>), Join(<<kwNOT, R(6), R(6)>>),
    Join(<<kwOUT, R(0)>>), Join(<<kwVER, <<"x">>, <<"1">> >>), kwHALT, kwNOP,
    IfLine(R(0), opEQ, R(0), Join(<<kwOUT, R(0)>>), << >>),
    IfLine(R(0), opNE, R(0), Join(<<kwOUT, R(0)>>), << >>),
    IfLine(R(0), opEQ, R(1), Join(<<kwOUT, R(0)>>), Join(<<kwCLEAR, R(1)>>)) }

\* the comment texts: plain, and with the words THEN and ELSE
CommentTexts ==
  { <<" ">> \o note, <<" ">> \o kwTHEN,
    <<" ">> \o Join(<<kwELSE, kwCLEAR, A(0)>>) }

CommentedLines == { Commented(line, c) : line \in CommentBase, c \in CommentTexts }

\* the lines of direct execute() calls
Lines ==
  BlankLines \cup LoadLines \cup StoreLines \cup InitLines \cup ClearLines
  \cup AddLines \cup LogicLines \cup OutLines \cup VerLines \cup HaltLines
  \cup UnknownLines \cup IfLines \cup NestedIfLines \cup BadIfLines
  \cup VerOddLines \cup VerIfLines \cup BadLiteralLines \cup CommentedLines

\* the lines programs are made of
ProgLines ==
  { kwHALT, Join(<<kwCLEAR, R(0)>>), Join(<<kwINIT, A(0), eq, B(128)>>),
    Join(<<kwLOAD, R(0), A(0)>>), <<" ">>, kwNOP,
    IfLine(R(0), opEQ, R(0), kwHALT, << >>),
    <<" ">> \o Join(<<kwOUT, R(0)>>) \o <<" ">> }

RECURSIVE SeqsUpTo(_, _)
SeqsUpTo(S, n) ==
  IF n = 0 THEN {<< >>}
  ELSE LET shorter == SeqsUpTo(S, n - 1)
       IN shorter \cup {Append(p, x) : p \in shorter, x \in S}

\* STORE Rs [a] followed by LOAD Rd [a]
RoundTrip(s, a, d) ==
  <<Join(<<kwSTORE, R(s), A(a)>>), Join(<<kwLOAD, R(d), A(a)>>)>>

RoundTripCases == {<<s, a, d>> : s \in {0, 1}, a \in {0, 1}, d \in {0, 1}}

\* longer programs: an instruction that raises, or a HALT, in the middle
LongPrograms ==
  { <<Join(<<kwINIT, A(0), eq, B(128)>>), Join(<<kwLOAD, R(0), A(0)>>),
      Join(<<kwLOAD, R(0), Aff>>), Join(<<kwCLEAR, A(0)>>)>>,
    <<Join(<<kwINIT, A(1), eq, B(128)>>), Join(<<kwVER, <<"x">>, <<"1">> >>),
      Join(<<kwINIT, A(1), eq, B(256)>>), Join(<<kwVER, <<"x">>, <<"0">> >>)>>,
    <<Join(<<kwINIT, A(0), eq, B(128)>>), Join(<<kwHALT, semi, note>>),
      Join(<<kwCLEAR, A(0)>>)>>,
    <<IfLine(R(0), opNE, R(0), Join(<<kwOUT, R(0)>>), kwHALT),
      Join(<<kwINIT, A(1), eq, B(128)>>), Join(<<kwOUT, R(0)>>)>> }

Programs ==
  SeqsUpTo(ProgLines, MaxProgLen)
  \cup { RoundTrip(c[1], c[2], c[3]) : c \in RoundTripCases }
  \cup LongPrograms

(***************************************************************************)
(* The state machine                                                       *)
(***************************************************************************)
VARIABLES
  registers,  \* self.registers
  memory,     \* self.ram.memory
  verbose,    \* self.verbose
  output,     \* what the current execute() or run() call has printed
  program,    \* the argument of the current run() call
  pc,         \* the position of run's for loop in program (1-based)
  runState,   \* "NONE", or how far the run() call is: "RUNNING", "HALTED"
              \* (break), "EXHAUSTED" (loop ended), "RAISED" (exception)
  executed,   \* the positions of program run has passed to execute()
  runPre,     \* registers, memory, verbose when the run() call began
  last,       \* the latest execute() call made by the shell or by run
  pre,        \* registers, memory, verbose when that call began
  call,       \* the entry point the caller is in or back from: "execute",
              \* "run", or "none" when it is about to make its next call
  ended       \* history, kept by RunOver: how the latest run() call that
              \* is over ended ("HALTED", "EXHAUSTED", "RAISED"), else "NONE"

vars == <<registers, memory, verbose, output, program, pc, runState,
          executed, runPre, last, pre, call, ended>>

Snapshot == [registers |-> registers, memory |-> memory, verbose |-> verbose]

NoCall == [line |-> << >>, ret |-> "NoCall", err |-> "none", log |-> << >>, out |-> << >>]

\* RAM.__init__ and CPU.__init__
Init ==
  /\ registers = [i \in 0..(NumRegisters - 1) |-> 0]
  /\ memory = [a \in 0..(RamSize - 1) |-> 0]
  /\ verbose = FALSE
  /\ output = << >>
  /\ program = << >>
  /\ pc = 0
  /\ runState = "NONE"
  /\ executed = << >>
  /\ runPre = [registers |-> [i \in 0..(NumRegisters - 1) |-> 0],
               memory |-> [a \in 0..(RamSize - 1) |-> 0], verbose |-> FALSE]
  /\ last = NoCall
  /\ pre = [registers |-> [i \in 0..(NumRegisters - 1) |-> 0],
            memory |-> [a \in 0..(RamSize - 1) |-> 0], verbose |-> FALSE]
  /\ call = "none"
  /\ ended = "NONE"

\* one execute() call on the current fields
Call(instruction) ==
  Execute(instruction, [registers |-> registers, memory |-> memory,
                        verbose |-> verbose, out |-> << >>, log |-> << >>])

\* an execute() call on `instruction` came back with r
Returned(instruction, r) ==
  /\ registers' = r.st.registers
  /\ memory' = r.st.memory
  /\ verbose' = r.st.verbose
  /\ output' = output \o r.st.out
  /\ last' = [line |-> instruction, ret |-> r.ret, err |-> r.err,
              log |-> r.st.log, out |-> r.st.out]
  /\ pre' = Snapshot

\* the shell calls cpu.execute(line)
ExecuteCall(line) ==
  /\ call = "none"
  /\ call' = "execute"
  /\ Returned(line, Call(line))
  /\ runPre' = Snapshot
  /\ program' = << >>
  /\ pc' = 0
  /\ runState' = "NONE"
  /\ executed' = << >>
  /\ ended' = ended

\* a run() call that finds the CPU halted by the HALT of the run before it
RunBeginHalted(prog) ==
  /\ call = "none"
  /\ call' = "run"
  /\ program' = prog
  /\ pc' = 1
  /\ runState' = IF prog = << >> THEN "EXHAUSTED"
                 ELSE IF ended = "HALTED" THEN "HALTED" ELSE "RUNNING"
  /\ executed' = << >>
  /\ output' = << >>
  /\ runPre' = Snapshot
  /\ pre' = Snapshot
  /\ last' = NoCall
  /\ UNCHANGED <<registers, memory, verbose, ended>>

\* the loader calls cpu.run(prog): the for loop is entered
RunBegin(prog) ==
  /\ call = "none"
  /\ call' = "run"
  /\ program' = prog
  /\ pc' = 1
  /\ runState' = IF prog = << >> THEN "EXHAUSTED" ELSE "RUNNING"
  /\ executed' = << >>
  /\ output' = << >>
  /\ runPre' = Snapshot
  /\ pre' = Snapshot
  /\ last' = NoCall
  /\ UNCHANGED <<registers, memory, verbose, ended>>

\* a run loop that swallows the exception of an instruction and goes on
AfterExecuteCatch(ret) == IF Falsy(ret) THEN "HALTED" ELSE "RUNNING"

\* a run loop without its break
AfterExecuteNoBreak(ret) == IF ret = "Raise" THEN "RAISED" ELSE "RUNNING"

\* how the loop goes on after execute() returned ret
AfterExecute(ret) ==
  IF ret = "Raise" THEN "RAISED"
  ELSE IF Falsy(ret) THEN "HALTED"
  ELSE "RUNNING"

\* the state of the loop when it moves to the next line
LoopEnd == IF pc + 1 > Len(program) THEN "EXHAUSTED" ELSE "RUNNING"

\* if not instruction: continue
Skip ==
  /\ pc' = pc + 1
  /\ runState' = LoopEnd
  /\ UNCHANGED <<registers, memory, verbose, output, executed, last, pre>>

\* the loop after execute(): next is the outcome of AfterExecute
Iterated(next) ==
  /\ pc' = IF next = "RUNNING" THEN pc + 1 ELSE pc
  /\ runState' = IF next = "RUNNING" THEN LoopEnd ELSE next

\* if not self.execute(instruction): break
Executed(instruction, r) ==
  /\ Returned(instruction, r)
  /\ executed' = Append(executed, pc)
  /\ Iterated(AfterExecute(r.ret))

\* instruction = instruction.strip()
Iterate(instruction) ==
  IF instruction = << >> THEN Skip
  ELSE Executed(instruction, Call(instruction))

\* one iteration of run's for loop
RunStep ==
  /\ runState = "RUNNING"
  /\ Iterate(Strip(program[pc]))
  /\ UNCHANGED <<program, runPre, call, ended>>

\* the call is over (returned or raised): the caller drops what it saw of
\* it and goes on to its next call; the CPU keeps its fields. `how` is what
\* the history keeps of the call
BackToCaller(how) ==
  /\ call # "none"
  /\ runState # "RUNNING"
  /\ call' = "none"
  /\ output' = << >>
  /\ program' = << >>
  /\ pc' = 0
  /\ runState' = "NONE"
  /\ executed' = << >>
  /\ runPre' = Snapshot
  /\ pre' = Snapshot
  /\ last' = NoCall
  /\ ended' = how
  /\ UNCHANGED <<registers, memory, verbose>>

\* back at the prompt, no history kept
Prompt == BackToCaller(ended)

\* a run() call is over, and the history keeps how it ended
RunOver == call = "run" /\ BackToCaller(runState)

Next ==
  \/ \E line \in Lines : ExecuteCall(line)
  \/ \E prog \in Programs : RunBegin(prog)
  \/ RunStep
  \/ Prompt

Spec == Init /\ [][Next]_vars

\* run() calls one after the other on one CPU, with the history of how the
\* latest one ended
RunsNext ==
  \/ \E prog \in Programs : RunBegin(prog)
  \/ RunStep
  \/ RunOver

RunsSpec == Init /\ [][RunsNext]_vars

(***************************************************************************)
(* Properties                                                              *)
(***************************************************************************)
\* the opcode of the line is HALT
IsHaltLine(line) == Parts(line) # << >> /\ Parts(line)[1] = kwHALT

\* an execute() call has been made and is the one recorded in last
Called == last.ret # "NoCall"

Unchanged == registers = pre.registers /\ memory = pre.memory /\ verbose = pre.verbose

\* C1: execute(line) returns false exactly when the opcode of the line is
\* HALT; every other line that dispatches without raising returns true.
C1_FalseOnlyOnHalt ==
  (Called /\ last.ret # "Raise") =>
     /\ (last.ret = "False") <=> IsHaltLine(last.line)
     /\ ~IsHaltLine(last.line) => last.ret = "True"

\* the positions of the HALT lines of a program
HaltPositions(prog) == {i \in 1..Len(prog) : IsHaltLine(Strip(prog[i]))}

\* the positions run must pass to execute(): the non-blank lines up to and
\* including the first HALT line
MustExecute(prog) ==
  LET stop == IF HaltPositions(prog) = {} THEN Len(prog) ELSE Min(HaltPositions(prog))
      F[i \in 0..Len(prog)] ==
        IF i = 0 THEN << >>
        ELSE IF i <= stop /\ Strip(prog[i]) # << >> THEN Append(F[i - 1], i)
        ELSE F[i - 1]
  IN F[Len(prog)]

\* no line of the program raises
NeverRaises(prog) == \A i \in 1..Len(prog) : Strip(prog[i]) \in ProgLines \ UnknownLines

\* C2: in a run of a program none of whose instructions raises, only a HALT
\* instruction takes the run from RUNNING to HALTED, and the non-blank
\* instructions up to the first HALT line are each executed once, in order.
C2_OnlyHaltEndsRun ==
  (call = "run" /\ NeverRaises(program)) =>
     /\ runState = "HALTED" => IsHaltLine(last.line)
     /\ runState \in {"HALTED", "EXHAUSTED"} => executed = MustExecute(program)

\* C3: run stops at a HALT line: no instruction placed after a HALT line is
\* executed, and the HALT leaves registers, memory and verbosity unchanged.
C3_HaltStopsRun ==
  /\ call = "run" =>
       \A k \in 1..Len(executed) :
          \A j \in 1..(executed[k] - 1) : ~IsHaltLine(Strip(program[j]))
  /\ (Called /\ IsHaltLine(last.line)) =>
       /\ Unchanged
       /\ call = "run" => runState = "HALTED" /\ executed[Len(executed)] = pc

\* a run stopped by a HALT that has instructions after it, from a state
\* that is not the initial one
C3_Witness ==
  /\ runState = "HALTED"
  /\ IsHaltLine(last.line)
  /\ pc < Len(program)
  /\ memory[0] = 128

\* the well-formed IF line `line` as a record of IfCases
IfCaseOf == [line \in IfLines |-> CHOOSE c \in IfCases : IfLineOf(c) = line]

\* the truth of `x op y`
Holds(op, x, y) ==
  \/ op = opEQ /\ x = y
  \/ op = opNE /\ ~(x = y)
  \/ op = opGT /\ y < x
  \/ op = opLT /\ x < y
  \/ op = opGE /\ ~(x < y)
  \/ op = opLE /\ ~(y < x)

\* the value of the right operand of case c in the fields s
OperandValue(c, s) ==
  CASE c.kind = "reg" -> s.registers[c.arg]
    [] c.kind = "mem" -> s.memory[c.arg]
    [] c.kind = "lit" -> c.arg

\* the fields after `instruction` alone is executed on the fields s
Alone(instruction, s) ==
  LET r == Execute(instruction, [registers |-> s.registers, memory |-> s.memory,
                                 verbose |-> s.verbose, out |-> << >>, log |-> << >>])
  IN [registers |-> r.st.registers, memory |-> r.st.memory, verbose |-> r.st.verbose]

\* C4: a well-formed IF executes only its THEN clause when the condition is
\* true, only its ELSE clause when it is false and there is one, and nothing
\* (fields unchanged) when it is false and there is none; the right operand
\* is a register's value, a memory cell's value or a base-2 literal.
C4_IfSelectsClause ==
  (Called /\ last.line \in IfLines) =>
     LET c == IfCaseOf[last.line]
         met == Holds(c.op, pre.registers[c.reg1], OperandValue(c, pre))
         chosen == IF met THEN c.then ELSE c.else
     IN IF chosen = << >>
        THEN last.log = <<last.line>> /\ Unchanged
        ELSE last.log = <<last.line, chosen>> /\ Snapshot = Alone(chosen, pre)

\* a false condition on a memory operand ran the ELSE clause, which
\* changed a memory cell
C4_Witness ==
  /\ Called
  /\ last.line \in IfLines
  /\ IfCaseOf[last.line].kind = "mem"
  /\ IfCaseOf[last.line].else # << >>
  /\ last.log = <<last.line, IfCaseOf[last.line].else>>
  /\ memory # pre.memory

\* C5: an IF whose THEN or ELSE clause is itself an IF executes: the outer
\* condition selects the inner IF, which selects its own clause.
C5_NestedIfRuns ==
  (Called /\ last.line \in NestedIfLines) =>
     /\ last.ret = "True"
     /\ last.log = <<last.line, InnerIf, Join(<<kwOUT, R(1)>>)>>

\* the fields after run has executed lines 1..n of prog from the fields s
RECURSIVE EffectOf(_, _, _)
EffectOf(prog, n, s) ==
  IF n = 0 THEN s
  ELSE LET before == EffectOf(prog, n - 1, s)
           instruction == Strip(prog[n])
       IN IF instruction = << >> THEN before ELSE Alone(instruction, before)

\* C6: when an instruction of a program raises, the run ends with that
\* error, nothing after that instruction is executed, and the effects of
\* the instructions before it are retained.
C6_RunPropagatesError ==
  /\ runState = "RAISED" => last.ret = "Raise"
  /\ (call = "run" /\ Called /\ last.ret = "Raise") =>
       /\ runState = "RAISED"
       /\ executed[Len(executed)] = pc
       /\ \A k \in 1..Len(executed) : executed[k] <= pc
       /\ Snapshot = EffectOf(program, pc - 1, runPre)

\* an instruction in the middle of a program raised after earlier
\* instructions had changed the fields
C6_Witness ==
  /\ runState = "RAISED"
  /\ 1 < pc
  /\ pc < Len(program)
  /\ Snapshot # runPre

\* the number of tokens of each opcode's form
Opcodes ==
  {kwLOAD, kwSTORE, kwINIT, kwCLEAR, kwADD, kwAND, kwOR, kwNAND, kwNOR, kwXOR,
   kwNOT, kwOUT, kwVER, kwHALT}

FormLen(opcode) ==
  CASE opcode \in {kwHALT} -> 1
    [] opcode \in {kwCLEAR, kwOUT} -> 2
    [] opcode \in {kwLOAD, kwSTORE, kwNOT, kwVER} -> 3
    [] opcode \in {kwINIT, kwADD, kwAND, kwOR, kwNAND, kwNOR, kwXOR} -> 4

WrongCount(line) ==
  LET parts == Parts(line)
  IN parts # << >> /\ parts[1] \in Opcodes /\ Len(parts) # FormLen(parts[1])

\* C7: a line whose token count differs from its opcode's form (HALT
\* included) makes execute raise and change nothing.
C7_ExactOperandCounts ==
  (Called /\ WrongCount(last.line)) => (last.ret = "Raise" /\ Unchanged)

Bytes == 0..255

\* C8: memory keeps its RamSize cells and the register file its 8 slots,
\* and every cell and register holds a byte, whatever was executed.
C8_ByteDomain ==
  /\ DOMAIN memory = 0..(RamSize - 1)
  /\ \A a \in DOMAIN memory : memory[a] \in Bytes
  /\ DOMAIN registers = 0..(NumRegisters - 1)
  /\ \A i \in DOMAIN registers : registers[i] \in Bytes

\* an INIT with a 9-bit literal was refused and memory holds what it held
C8_Witness ==
  /\ Called
  /\ last.line = Join(<<kwINIT, A(0), eq, B(256)>>)
  /\ last.err = "InvalidValue"
  /\ memory[0] = 128

\* the well-formed ADD line `line` as a triple of AddCases
AddCaseOf == [line \in {AddLineOf(c) : c \in AddCases} |->
                CHOOSE c \in AddCases : AddLineOf(c) = line]

\* C9: ADD Ra Rb Rd sets Rd to (Ra + Rb) mod 256, a, b and d distinct or
\* not, and changes no other register, no memory cell and not the verbosity.
C9_AddWraps ==
  (Called /\ last.line \in DOMAIN AddCaseOf) =>
     LET c == AddCaseOf[last.line]
         x == pre.registers[c[1]]
         y == pre.registers[c[2]]
         sum == IF x + y < 256 THEN x + y ELSE x + y - 256
     IN /\ registers = [pre.registers EXCEPT ![c[3]] = sum]
        /\ memory = pre.memory
        /\ verbose = pre.verbose

\* ADD R0 R0 R0 on 128: source and destination the same register, and the
\* sum wraps
C9_Witness ==
  /\ Called
  /\ last.line = AddLineOf(<<0, 0, 0>>)
  /\ pre.registers[0] = 128
  /\ registers[0] = 0

\* the bytes written in the round-trip check of RAM
ByteSamples == {0, 1, 127, 128, 255}

\* C10: RAM.write(a, v) then RAM.read(a) returns v and the write changes no
\* other cell; STORE Rs [a] followed by LOAD Rd [a] leaves in Rd the value
\* Rs held at the STORE.
C10_MemoryRoundTrip ==
  /\ \A a \in 0..(RamSize - 1), v \in ByteSamples :
        LET w == RAMwrite(memory, a, v)
        IN /\ w.err = "none"
           /\ RAMread(w.memory, a) = [err |-> "none", val |-> v]
           /\ \A b \in (DOMAIN memory) \ {a} : w.memory[b] = memory[b]
           /\ DOMAIN w.memory = DOMAIN memory
  /\ \A c \in RoundTripCases :
        (call = "run" /\ program = RoundTrip(c[1], c[2], c[3])
           /\ runState = "EXHAUSTED") =>
           /\ registers[c[3]] = runPre.registers[c[1]]
           /\ memory[c[2]] = runPre.registers[c[1]]

\* STORE R0 [01] then LOAD R1 [01] moved 128 from R0 to R1 through a cell
\* that held 0
C10_Witness ==
  /\ call = "run"
  /\ program = RoundTrip(0, 1, 1)
  /\ runState = "EXHAUSTED"
  /\ runPre.registers[0] = 128
  /\ runPre.registers[1] = 0
  /\ runPre.memory[1] = 0
  /\ registers[1] = 128

\* addresses outside [0, RamSize) and values outside [0, 255]
OutAddresses == {-2, -1, RamSize, RamSize + 1, 255}

OutValues == {-1, 256, 257}

\* the lines that reach RAM with an address outside [0, RamSize)
OutOfBoundsLines ==
  { Join(<<kwLOAD, R(0), Aff>>), Join(<<kwLOAD, R(0), <<"[", "-", "1", "]">> >>),
    Join(<<kwSTORE, R(1), Aff>>), Join(<<kwINIT, Aff, eq, B(1)>>),
    Join(<<kwCLEAR, Aff>>) }

\* C11: RAM.read and RAM.write with an address < 0 or >= size fail with the
\* out-of-bounds error, RAM.write with a value outside [0,255] fails with
\* the invalid-value error, and no cell is modified by such a failure.
C11_RamFailures ==
  /\ \A a \in OutAddresses :
        /\ RAMread(memory, a).err = "OutOfBounds"
        /\ \A v \in ByteSamples \cup OutValues :
              RAMwrite(memory, a, v) = [err |-> "OutOfBounds", memory |-> memory]
  /\ \A a \in 0..(RamSize - 1), v \in OutValues :
        RAMwrite(memory, a, v) = [err |-> "InvalidValue", memory |-> memory]
  /\ (Called /\ last.line \in OutOfBoundsLines) =>
        (last.ret = "Raise" /\ last.err = "OutOfBounds" /\ memory = pre.memory)
  /\ (Called /\ last.line = Join(<<kwINIT, A(0), eq, B(256)>>)) =>
        (last.ret = "Raise" /\ last.err = "InvalidValue" /\ memory = pre.memory)

\* a LOAD from address -1 was refused while the cells hold 128
C11_Witness ==
  /\ Called
  /\ last.line = Join(<<kwLOAD, R(0), <<"[", "-", "1", "]">> >>)
  /\ last.err = "OutOfBounds"
  /\ memory[RamSize - 1] = 128
  /\ registers[0] = 0

(***************************************************************************)
(* The scenario program on a fresh CPU                                     *)
(***************************************************************************)
\* INIT [a] = v; LOAD R0 [a]; ADD R0 R0 R1; OUT R1; HALT
Scenario(a, v) ==
  <<Join(<<kwINIT, A(a), eq, B(v)>>), Join(<<kwLOAD, R(0), A(a)>>),
    Join(<<kwADD, R(0), R(0), R(1)>>), Join(<<kwOUT, R(1)>>), kwHALT>>

ScenarioCases == {<<a, v>> : a \in 0..(RamSize - 1), v \in Bytes}

ScenarioPrograms == {Scenario(c[1], c[2]) : c \in ScenarioCases}

\* one run() call, of a scenario program, on the CPU as constructed
ScenarioNext ==
  \/ \E prog \in ScenarioPrograms : RunBegin(prog)
  \/ RunStep

ScenarioSpec == Init /\ [][ScenarioNext]_vars

\* the scenario program `prog` as a pair of ScenarioCases
ScenarioOf == [prog \in ScenarioPrograms |->
                 CHOOSE c \in ScenarioCases : Scenario(c[1], c[2]) = prog]

\* the 8 binary digits of the byte x, the most significant first
Render8(x) == [i \in 1..8 |-> IF (x \div (2 ^ (8 - i))) % 2 = 1 THEN "1" ELSE "0"]

\* C12: from a fresh CPU, the run of INIT [a] = v; LOAD R0 [a]; ADD R0 R0 R1;
\* OUT R1; HALT ends stopped at the HALT with memory[a] = v, R0 = v,
\* R1 = (2*v) mod 256 and exactly one OUT emission, R1 as 8 binary digits.
C12_Scenario ==
  (call = "run" /\ program \in ScenarioPrograms /\ runState # "RUNNING") =>
     LET a == ScenarioOf[program][1]
         v == ScenarioOf[program][2]
     IN /\ runState = "HALTED"
        /\ IsHaltLine(last.line)
        /\ executed = <<1, 2, 3, 4, 5>>
        /\ memory[a] = v
        /\ registers[0] = v
        /\ registers[1] = (2 * v) % 256
        /\ output = <<[kind |-> "OUT", op |-> "REG", text |-> Render8((2 * v) % 256)]>>

\* the scenario of the spec: v = 5 at address 0 gives R1 = 10, printed as
\* 00001010
C12_Witness ==
  /\ call = "run"
  /\ program = Scenario(0, 5)
  /\ runState = "HALTED"
  /\ registers[1] = 10
  /\ Len(output) = 1
  /\ output[1].text = <<"0", "0", "0", "0", "1", "0", "1", "0">>

ClearRegLine(d) == Join(<<kwCLEAR, R(d)>>)

ClearMemLine(a) == Join(<<kwCLEAR, A(a)>>)

\* execute(instruction) on the fields s raises
Raises(instruction, s) ==
  Execute(instruction, [registers |-> s.registers, memory |-> s.memory,
                        verbose |-> s.verbose, out |-> << >>, log |-> << >>]).ret = "Raise"

\* C13: CLEAR Rd, d in 0..7, sets register d to 0 and changes no memory
\* cell, no other register and not the verbosity; CLEAR [a], a a valid
\* address, sets memory[a] to 0 and changes no register and no other cell.
\* Stated of every d and a on the fields the caller may call from, and of the
\* CLEAR calls made.
C13_ClearFrame ==
  /\ call = "none" =>
        \A d \in 0..(NumRegisters - 1) :
           /\ ~Raises(ClearRegLine(d), Snapshot)
           /\ Alone(ClearRegLine(d), Snapshot) =
                [Snapshot EXCEPT !.registers = [registers EXCEPT ![d] = 0]]
  /\ call = "none" =>
        \A a \in 0..(RamSize - 1) :
           /\ ~Raises(ClearMemLine(a), Snapshot)
           /\ Alone(ClearMemLine(a), Snapshot) =
                [Snapshot EXCEPT !.memory = [memory EXCEPT ![a] = 0]]
  /\ \A d \in 0..(NumRegisters - 1) :
        (Called /\ last.line = ClearRegLine(d)) =>
           /\ last.ret # "Raise"
           /\ registers = [pre.registers EXCEPT ![d] = 0]
           /\ memory = pre.memory
           /\ verbose = pre.verbose
  /\ \A a \in 0..(RamSize - 1) :
        (Called /\ last.line = ClearMemLine(a)) =>
           /\ last.ret # "Raise"
           /\ memory = [pre.memory EXCEPT ![a] = 0]
           /\ registers = pre.registers
           /\ verbose = pre.verbose

\* CLEAR R1 zeroed a register that held 128 while R0 and a cell hold 128
\* and the verbosity is on
C13_Witness ==
  /\ Called
  /\ last.line = ClearRegLine(1)
  /\ pre.registers[1] = 128
  /\ registers[1] = 0
  /\ registers[0] = 128
  /\ memory[1] = 128
  /\ verbose

\* the opcode of the line, << >> for a blank line
OpcodeOf(line) == IF Parts(line) = << >> THEN << >> ELSE Parts(line)[1]

\* the entries of a call's output that are traces, and those of OUT
Traces(out) == SelectSeq(out, LAMBDA e : e.kind = "TRACE")

Outs(out) == SelectSeq(out, LAMBDA e : e.kind = "OUT")

\* C14: the verbosity changes only when a VER is executed, at the top level
\* or as the clause of an IF; VER x 1 sets it and VER x 0 resets it; a VER
\* whose third token is not the literal 0 or 1 raises and leaves it; OUT
\* emits whatever the verbosity; with the verbosity off nothing but OUT
\* emits.
C14_VerbosityOnlyByVer ==
  Called =>
     /\ verbose # pre.verbose =>
          \E i \in 1..Len(last.log) : OpcodeOf(last.log[i]) = kwVER
     /\ (OpcodeOf(last.line) = kwVER /\ Len(Parts(last.line)) = 3) =>
          LET token == Parts(last.line)[3]
          IN /\ token = <<"1">> => (last.ret = "True" /\ verbose)
             /\ token = <<"0">> => (last.ret = "True" /\ ~verbose)
             /\ token \notin {<<"0">>, <<"1">>} =>
                  (last.ret = "Raise" /\ verbose = pre.verbose)
     /\ (OpcodeOf(last.line) = kwOUT /\ last.ret # "Raise") =>
          Len(Outs(last.out)) = 1
     /\ (~pre.verbose /\ ~verbose /\ last.ret # "Raise") =>
          Traces(last.out) = << >>

(***************************************************************************)
(* The logic instructions on every pair of bytes                           *)
(***************************************************************************)
\* one logic instruction per gate, on R0 and R1 into R2
GateLine(op) ==
  IF op = kwNOT THEN Join(<<op, R(0), R(2)>>) ELSE Join(<<op, R(0), R(1), R(2)>>)

GateOps == {kwAND, kwOR, kwNOT, kwNAND, kwNOR, kwXOR}

\* a CPU whose R0 and R1 hold any two bytes, the rest as constructed
GateInit ==
  /\ registers \in {[i \in 0..(NumRegisters - 1) |->
                       IF i = 0 THEN a ELSE IF i = 1 THEN b ELSE 0] :
                    a \in 0..255, b \in 0..255}
  /\ memory = [a \in 0..(RamSize - 1) |-> 0]
  /\ verbose = FALSE
  /\ output = << >>
  /\ program = << >>
  /\ pc = 0
  /\ runState = "NONE"
  /\ executed = << >>
  /\ runPre = Snapshot
  /\ last = NoCall
  /\ pre = Snapshot
  /\ call = "none"
  /\ ended = "NONE"

\* one logic instruction is executed: NAND and NOR on every pair of bytes,
\* NOT, which reads R0 only, on every byte, the other gates on every byte
\* and a sample
GateNext ==
  \E op \in GateOps :
     /\ op = kwNOT => registers[1] = 0
     /\ op \in {kwAND, kwOR, kwXOR} =>
           registers[1] \in {0, 1, 15, 85, 127, 128, 170, 240, 255}
     /\ ExecuteCall(GateLine(op))

GateSpec == GateInit /\ [][GateNext]_vars

\* C15: NAND(a,b) = NOT(AND(a,b)), NOR(a,b) = NOT(OR(a,b)), NOT(NOT(a)) = a
\* and every gate's result is a byte, for all bytes a and b; the gates'
\* results are those the logic instructions leave in their target register.
C15_GateIdentities ==
  /\ call = "none" =>
        /\ GateAND(registers[0], registers[1]) \in Bytes
        /\ GateOR(registers[0], registers[1]) \in Bytes
        /\ GateXOR(registers[0], registers[1]) \in Bytes
  /\ Called => last.ret = "True"
  /\ Called =>
     LET a == pre.registers[0]
         b == pre.registers[1]
         result == registers[2]
     IN /\ result \in Bytes
        /\ OpcodeOf(last.line) = kwAND => result = GateAND(a, b)
        /\ OpcodeOf(last.line) = kwOR => result = GateOR(a, b)
        /\ OpcodeOf(last.line) = kwXOR => result = GateXOR(a, b)
        /\ OpcodeOf(last.line) = kwNAND => result = GateNOT(GateAND(a, b))
        /\ OpcodeOf(last.line) = kwNOR => result = GateNOT(GateOR(a, b))
        /\ OpcodeOf(last.line) = kwNOT => (result = GateNOT(a) /\ GateNOT(result) = a)

\* NAND R0 R1 R2 on 255 and 255 left 0, on which a complement that is not
\* masked would differ
C15_Witness ==
  /\ Called
  /\ last.line = GateLine(kwNAND)
  /\ pre.registers[0] = 255
  /\ pre.registers[1] = 255
  /\ registers[2] = 0

\* the line a commented line is the line of
BaseOf == [line \in CommentedLines |->
             CHOOSE base \in CommentBase :
                \E c \in CommentTexts : Commented(base, c) = line]

\* C16: a trailing comment is stripped before parsing, for every opcode, IF
\* included, and every comment text: execute(L ; c) returns or raises what
\* execute(L) does, with the same effect on registers, memory and verbosity
\* and the same OUT emissions.
C16_CommentIgnored ==
  (Called /\ last.line \in CommentedLines) =>
     LET r == Execute(BaseOf[last.line],
                      [registers |-> pre.registers, memory |-> pre.memory,
                       verbose |-> pre.verbose, out |-> << >>, log |-> << >>])
     IN /\ last.ret = r.ret
        /\ last.err = r.err
        /\ registers = r.st.registers
        /\ memory = r.st.memory
        /\ verbose = r.st.verbose
        /\ Outs(last.out) = Outs(r.st.out)

\* C17: no resumption state is kept between runs. When a run() call is
\* over, by HALT, by exhaustion or by an error, the fields stay as it left
\* them; the next run() call starts from exactly those fields at the first
\* line of its program, RUNNING whatever ended the run before it, and
\* executes that line by the rules of any run.
C17_NoResumption ==
  [][ /\ (call = "run" /\ call' = "none") => Snapshot' = Snapshot
      /\ (call = "none" /\ call' = "run") =>
            /\ Snapshot' = Snapshot
            /\ runPre' = Snapshot
            /\ pc' = 1
            /\ executed' = << >>
            /\ runState' = IF program' = << >> THEN "EXHAUSTED" ELSE "RUNNING"
      /\ (call = "run" /\ runState = "RUNNING" /\ pc = 1) =>
            /\ executed' = IF Strip(program[1]) = << >> THEN << >> ELSE <<1>>
            /\ Snapshot' = EffectOf(program, 1, Snapshot)
            /\ runState' # "RUNNING" \/ pc' = 2 ]_vars

\* after a run that a HALT ended and that left 128 in cell 0, the first line
\* of the next run, LOAD R0 [00], was executed and loaded that 128
C17_Witness ==
  /\ call = "run"
  /\ ended = "HALTED"
  /\ executed = <<1>>
  /\ last.line = Join(<<kwLOAD, R(0), A(0)>>)
  /\ last.ret = "True"
  /\ runPre.memory[0] = 128
  /\ runPre.registers[0] = 0
  /\ registers[0] = 128

\* what execute(instruction) emits on the fields s
Emitted(instruction, s) ==
  Execute(instruction, [registers |-> s.registers, memory |-> s.memory,
                        verbose |-> s.verbose, out |-> << >>, log |-> << >>]).st.out

\* C18: with the verbosity on, CLEAR Rd emits nothing and CLEAR [a], a a
\* valid address, emits exactly one trace line; with the verbosity off
\* neither emits anything.
C18_ClearTrace ==
  /\ call = "none" =>
        /\ \A d \in 0..(NumRegisters - 1) : Emitted(ClearRegLine(d), Snapshot) = << >>
        /\ \A a \in 0..(RamSize - 1) :
              /\ Len(Emitted(ClearMemLine(a), Snapshot)) = IF verbose THEN 1 ELSE 0
              /\ Traces(Emitted(ClearMemLine(a), Snapshot)) = Emitted(ClearMemLine(a), Snapshot)
  /\ \A d \in 0..(NumRegisters - 1) :
        (Called /\ last.line = ClearRegLine(d)) => last.out = << >>
  /\ \A a \in 0..(RamSize - 1) :
        (Called /\ last.line = ClearMemLine(a)) =>
           last.out = IF pre.verbose
                      THEN <<[kind |-> "TRACE", op |-> "CLEAR", text |-> << >>]>>
                      ELSE << >>

\* with the verbosity on, CLEAR R1 zeroed a register holding 128 and
\* emitted nothing
C18_Witness ==
  /\ Called
  /\ last.line = ClearRegLine(1)
  /\ pre.verbose
  /\ pre.registers[1] = 128
  /\ registers[1] = 0
  /\ last.out = << >>

\* the errors execute() raises
ErrorKinds ==
  {"Parts", "Unknown", "RegIndex", "StrIndex", "IntLiteral", "OutOfBounds",
   "InvalidValue", "VerValue", "NoThen", "Unpack", "Condition"}

\* C19: an execute() call that raises, for a wrong token count, an unknown
\* opcode, a register index 8 or 9, an address out of bounds, an INIT value
\* over the range, a bad VER value, an invalid IF condition or an IF whose
\* selected clause raises, leaves the registers, the memory and the
\* verbosity as they were before the call.
C19_FailureAtomic ==
  Called =>
     /\ last.ret = "Raise" <=> last.err \in ErrorKinds
     /\ last.ret = "Raise" => Unchanged

\* an IF whose condition held ran its clause, an unknown opcode, which
\* raised, on a CPU whose fields are not the initial ones
C19_Witness ==
  /\ Called
  /\ last.line = IfLine(R(0), opEQ, R(0), kwNOP, << >>)
  /\ last.log = <<last.line, kwNOP>>
  /\ last.ret = "Raise"
  /\ last.err = "Unknown"
  /\ registers[0] = 128
  /\ memory[1] = 128
  /\ verbose

\* the latest call is an IF that executed HALT as its selected clause
HaltClauseTaken ==
  /\ Called
  /\ OpcodeOf(last.line) = kwIF
  /\ Len(last.log) = 2
  /\ IsHaltLine(last.log[2])

\* the non-blank positions of prog after position i
LinesAfter(prog, i) == {j \in (i + 1)..Len(prog) : Strip(prog[j]) # << >>}

\* C20: execute() of an IF line returns true whatever its selected clause
\* returns; when HALT is the clause an IF of a program takes, the run does
\* not stop there and goes on to execute the line after the IF.
C20_ConditionalHaltGoesOn ==
  /\ (Called /\ OpcodeOf(last.line) = kwIF /\ last.ret # "Raise") => last.ret = "True"
  /\ (call = "run" /\ HaltClauseTaken) =>
        /\ runState \in {"RUNNING", "EXHAUSTED"}
        /\ pc > executed[Len(executed)]
        /\ runState = "EXHAUSTED" <=> pc > Len(program)
  /\ (call = "run" /\ runState # "RUNNING") =>
        \A k \in 1..Len(executed) :
           (/\ OpcodeOf(Strip(program[executed[k]])) = kwIF
            /\ ~(runState = "RAISED" /\ pc = executed[k])
            /\ LinesAfter(program, executed[k]) # {}) =>
              /\ k < Len(executed)
              /\ executed[k + 1] = Min(LinesAfter(program, executed[k]))

\* a run executed IF R0 == R0 THEN HALT, whose clause HALT was taken, and
\* then the OUT R0 that follows it
C20_Witness ==
  /\ call = "run"
  /\ Len(program) = 2
  /\ program[1] = IfLine(R(0), opEQ, R(0), kwHALT, << >>)
  /\ executed = <<1, 2>>
  /\ last.line = Join(<<kwOUT, R(0)>>)
  /\ Len(output) = 1
  /\ runState = "EXHAUSTED"

====
